---- MODULE Spec2Model ----
(***************************************************************************)
(* A model of font_renamer: the per-platform language resolver             *)
(* (platforms.py), the language info mapper (name_record_mapper.py) and    *)
(* the name table adapter (table_name.py).                                 *)
(*                                                                         *)
(* Python values are modelled as follows.  A mapping is a TLA+ function    *)
(* whose DOMAIN is the key set.  The outcome of a call is a record         *)
(* [outcome, error, value]: outcome is "return" or "raise", error is the   *)
(* exact class of the raised exception, value is the returned value.       *)
(***************************************************************************)
EXTENDS Integers, Sequences, FiniteSets, TLC

VARIABLES
    platformsArg, \* history: the platforms argument the mapper was built with
    platforms,   \* LanguageInfoMapper._platforms
    byId,        \* cache slot of the cached_property _platforms_by_id
    byName,      \* cache slot of the cached_property _platforms_by_name
    names,       \* the wrapped raw table's record list (table.names)
    initNames,   \* history: the record list of the raw table the adapter
                 \* was constructed over (empty if it had none)
    hadNames,    \* history: whether the raw table had a names attribute then
    lastSet,     \* history: per 4-tuple, the string of the latest set_name_string
    instances,   \* the attribute values of the LanguageMappedPlatform
                 \* instances, by their number in Instances
    record,      \* the __dict__ of the NameRecord instance the latest
                 \* construction produced, <<>> if it produced none
    fields,      \* history: the field values that instance was constructed with
    returned,    \* the mapping the latest as_dict() returned
    aliased,     \* whether that mapping is the instance's own __dict__
    call,        \* the latest call: operation and arguments
    result       \* the outcome of the latest call

vars == <<platformsArg, platforms, byId, byName, names, initNames, hadNames, lastSet, instances, record, fields, returned, aliased, call, result>>

mapperVars == <<platformsArg, platforms, byId, byName>>
tableVars == <<names, initNames, hadNames, lastSet>>
recordVars == <<record, fields, returned, aliased>>

-----------------------------------------------------------------------------
(* Bounds of the model *)

\* longest platform sequence handed to LanguageInfoMapper(...)
MaxPlatforms == 2
\* longest record list of a raw table the adapter is constructed over
MaxInitNames == 2

-----------------------------------------------------------------------------
(* Outcomes *)

Ret(v) == [outcome |-> "return", error |-> "", value |-> v]
Raise(e) == [outcome |-> "raise", error |-> e, value |-> "<no value>"]

Returned(r) == r.outcome = "return"
Raised(r, e) == r.outcome = "raise" /\ r.error = e

\* class UnsupportedLanguageCodeError(KeyError)
IsKeyError(e) == e \in {"KeyError", "UnsupportedLanguageCodeError"}

SetMax(S) == CHOOSE m \in S : \A x \in S : x <= m
Range(f) == {f[k] : k \in DOMAIN f}
EmptyMap == [k \in {} |-> k]

-----------------------------------------------------------------------------
(* opentype_name_constants.py *)

PlatformID_UNICODE == 0
PlatformID_MAC == 1
PlatformID_WINDOWS == 3
PlatformID == {PlatformID_UNICODE, PlatformID_MAC, PlatformID_WINDOWS}

MacPlatformEncodingID == 0 .. 32
WindowsPlatformEncodingID == {0, 1, 2, 3, 4, 5, 6, 10}
UNICODE_BMP == 1

-----------------------------------------------------------------------------
(* platforms.py: the registry.  The language tables come from fontTools;   *)
(* the model keeps a few of their entries: "en" and "ar" are mapped on     *)
(* both platforms, "en-gb" on Windows only, "eo" on Mac only.              *)

MAC_LANGUAGE_IDS == ("en" :> 0) @@ ("ar" :> 12) @@ ("eo" :> 94)

WINDOWS_LANGUAGE_IDS == ("en" :> 1033) @@ ("ar" :> 1025) @@ ("en-gb" :> 2057)

MAC_PLATFORM_ENCODING_IDS == (0 :> 0) @@ (12 :> 4) @@ (94 :> 0)

\* a variant that assigns an encoding id the Windows platform does not define
WINDOWS_PLATFORM_ENCODING_IDS_Undefined ==
    [lang \in Range(WINDOWS_LANGUAGE_IDS) |-> 7]

WINDOWS_PLATFORM_ENCODING_IDS ==
    [lang \in Range(WINDOWS_LANGUAGE_IDS) |-> UNICODE_BMP]

WINDOWS_PLATFORM ==
    [name |-> "windows",
     platform_id |-> PlatformID_WINDOWS,
     valid_platform_encoding_ids |-> WindowsPlatformEncodingID,
     valid_language_ids |-> Range(WINDOWS_LANGUAGE_IDS),
     language_ids |-> WINDOWS_LANGUAGE_IDS,
     platform_encoding_ids |-> WINDOWS_PLATFORM_ENCODING_IDS]

MAC_PLATFORM ==
    [name |-> "mac",
     platform_id |-> PlatformID_MAC,
     valid_platform_encoding_ids |-> MacPlatformEncodingID,
     valid_language_ids |-> Range(MAC_LANGUAGE_IDS),
     language_ids |-> MAC_LANGUAGE_IDS,
     platform_encoding_ids |-> MAC_PLATFORM_ENCODING_IDS]

PLATFORMS == <<WINDOWS_PLATFORM, MAC_PLATFORM>>

\* The dataclass has no __post_init__: any field values make an instance.
\* Two further instances a caller can build: one whose language id 8 has no
\* entry in platform_encoding_ids, and one that reuses the Windows platform
\* id and name with another language table.
UNICODE_CUSTOM_PLATFORM ==
    [name |-> "custom",
     platform_id |-> PlatformID_UNICODE,
     valid_platform_encoding_ids |-> {3},
     valid_language_ids |-> {7},
     language_ids |-> ("en" :> 7) @@ ("zz" :> 8),
     platform_encoding_ids |-> (7 :> 3)]

WINDOWS_CUSTOM_PLATFORM ==
    [name |-> "windows",
     platform_id |-> PlatformID_WINDOWS,
     valid_platform_encoding_ids |-> {UNICODE_BMP, 10},
     valid_language_ids |-> {1033, 1036},
     language_ids |-> ("en" :> 1033) @@ ("fr" :> 1036),
     platform_encoding_ids |-> (1033 :> 10) @@ (1036 :> UNICODE_BMP)]

\* the LanguageMappedPlatform instances of the model
LanguageMappedPlatform ==
    {WINDOWS_PLATFORM, MAC_PLATFORM, UNICODE_CUSTOM_PLATFORM,
     WINDOWS_CUSTOM_PLATFORM}

\* the same instances, numbered
Instances ==
    <<WINDOWS_PLATFORM, MAC_PLATFORM, UNICODE_CUSTOM_PLATFORM,
      WINDOWS_CUSTOM_PLATFORM>>

\* the language codes callers pass ("xx" is mapped nowhere)
LanguageCodes == {"en", "ar", "eo", "en-gb", "fr", "zz", "xx"}

\* the attributes of a LanguageMappedPlatform
AttributeNames ==
    {"name", "platform_id", "valid_platform_encoding_ids",
     "valid_language_ids", "language_ids", "platform_encoding_ids"}

\* the values a caller tries to assign, one per attribute
AttributeValues ==
    [name |-> "other",
     platform_id |-> PlatformID_UNICODE,
     valid_platform_encoding_ids |-> {},
     valid_language_ids |-> {},
     language_ids |-> ("xx" :> 1),
     platform_encoding_ids |-> (1 :> 1)]

\* a variant of a dataclass that is not frozen
setattr_Assigns(self, name, value) ==
    [result |-> Ret("None"), self |-> [self EXCEPT ![name] = value]]

\* setattr(instance, name, value) on a dataclass(frozen=True): the generated
\* __setattr__ raises before anything is stored
setattr(self, name, value) ==
    [result |-> Raise("FrozenInstanceError"), self |-> self]

-----------------------------------------------------------------------------
(* platforms.py: the resolver *)

\* a variant without the try/except: the mapping's own KeyError escapes
get_language_id_PlainKeyError(p, language_code) ==
    IF language_code \in DOMAIN p.language_ids
    THEN Ret(p.language_ids[language_code])
    ELSE Raise("KeyError")

\* a variant that answers from the encoding table
get_language_id_FromEncodingTable(p, language_code) ==
    IF language_code \in DOMAIN p.language_ids
    THEN IF p.language_ids[language_code] \in DOMAIN p.platform_encoding_ids
         THEN Ret(p.platform_encoding_ids[p.language_ids[language_code]])
         ELSE Ret(p.language_ids[language_code])
    ELSE Raise("UnsupportedLanguageCodeError")

get_language_id(p, language_code) ==
    IF language_code \in DOMAIN p.language_ids
    THEN Ret(p.language_ids[language_code])
    ELSE Raise("UnsupportedLanguageCodeError")

\* a variant without the second try/except
get_platform_encoding_id_PlainKeyError(p, language_code) ==
    LET language_id == get_language_id(p, language_code)
    IN  IF ~Returned(language_id) THEN language_id
        ELSE IF language_id.value \in DOMAIN p.platform_encoding_ids
        THEN Ret(p.platform_encoding_ids[language_id.value])
        ELSE Raise("KeyError")

get_platform_encoding_id(p, language_code) ==
    LET language_id == get_language_id(p, language_code)
    IN  IF ~Returned(language_id) THEN language_id
        ELSE IF language_id.value \in DOMAIN p.platform_encoding_ids
        THEN Ret(p.platform_encoding_ids[language_id.value])
        ELSE Raise("UnsupportedLanguageCodeError")

\* LanguageInfo(p.platform_id, p.get_language_id(c),
\*              p.get_platform_encoding_id(c)): the arguments are evaluated
\* left to right and the first exception propagates.
\* a variant that fills language_id and platform_encoding_id crosswise
LanguageInfo_SwappedFields(p, language_code) ==
    LET language_id == get_language_id(p, language_code)
        platform_encoding_id == get_platform_encoding_id(p, language_code)
    IN  IF ~Returned(language_id) THEN language_id
        ELSE IF ~Returned(platform_encoding_id) THEN platform_encoding_id
        ELSE Ret([platform_id |-> p.platform_id,
                  language_id |-> platform_encoding_id.value,
                  platform_encoding_id |-> language_id.value])

LanguageInfo(p, language_code) ==
    LET language_id == get_language_id(p, language_code)
        platform_encoding_id == get_platform_encoding_id(p, language_code)
    IN  IF ~Returned(language_id) THEN language_id
        ELSE IF ~Returned(platform_encoding_id) THEN platform_encoding_id
        ELSE Ret([platform_id |-> p.platform_id,
                  language_id |-> language_id.value,
                  platform_encoding_id |-> platform_encoding_id.value])

\* the module-level function platforms.get_language_info(platform, code)
platforms_get_language_info(p, language_code) == LanguageInfo(p, language_code)

-----------------------------------------------------------------------------
(* name_record_mapper.py: LanguageInfoMapper *)

SeqsUpTo(S, n) == UNION {[1 .. k -> S] : k \in 0 .. n}

\* the values of the constructor's platforms argument: None (the default)
\* or a sequence of platform instances
PlatformsArgs ==
    {[isNone |-> TRUE, seq |-> <<>>]}
        \cup {[isNone |-> FALSE, seq |-> s] :
                s \in SeqsUpTo(LanguageMappedPlatform, MaxPlatforms)}

\* a variant that keeps an empty sequence
LanguageInfoMapper_init_KeepsEmpty(arg) ==
    IF arg.isNone THEN PLATFORMS ELSE arg.seq

\* a variant whose default pair is (Mac, Windows)
LanguageInfoMapper_init_MacFirst(arg) ==
    IF ~arg.isNone /\ Len(arg.seq) > 0 THEN arg.seq
    ELSE <<MAC_PLATFORM, WINDOWS_PLATFORM>>

\* self._platforms = platforms if platforms else fr_platforms.PLATFORMS
\* (None and the empty sequence are both falsy)
LanguageInfoMapper_init(arg) ==
    IF ~arg.isNone /\ Len(arg.seq) > 0 THEN arg.seq ELSE PLATFORMS

\* the cache slot of a cached_property before its first access
NotComputed == [computed |-> FALSE, map |-> EmptyMap]
Computed(m) == [computed |-> TRUE, map |-> m]

\* a variant that keeps the first platform of a key instead of the last
platforms_by_id_FirstWins(ps) ==
    [k \in {ps[i].platform_id : i \in DOMAIN ps} |->
        ps[CHOOSE i \in DOMAIN ps :
                /\ ps[i].platform_id = k
                /\ \A j \in DOMAIN ps : ps[j].platform_id = k => i <= j]]

\* {p.platform_id: p for p in self._platforms}: a later platform with the
\* same key replaces an earlier one
platforms_by_id(ps) ==
    [k \in {ps[i].platform_id : i \in DOMAIN ps} |->
        ps[SetMax({i \in DOMAIN ps : ps[i].platform_id = k})]]

\* a variant that indexes the first platform only
platforms_by_name_OnlyFirst(ps) ==
    [k \in {ps[1].name} |-> ps[1]]

\* {p.name: p for p in self._platforms}
platforms_by_name(ps) ==
    [k \in {ps[i].name : i \in DOMAIN ps} |->
        ps[SetMax({i \in DOMAIN ps : ps[i].name = k})]]

\* a variant that empties a filled slot when it is read
CachedGet_Forgets(slot, computeNow) == IF slot.computed THEN NotComputed ELSE Computed(computeNow)

\* functools.cached_property: compute on first access, then reuse the slot
CachedGet(slot, computeNow) == IF slot.computed THEN slot ELSE Computed(computeNow)

\* The selectors of get_language_info(code, platform=...): the keyword left
\* out, None, a platform identifier, or a platform name.
Selectors ==
    {[kind |-> "absent", id |-> 0, name |-> ""],
     [kind |-> "none", id |-> 0, name |-> ""]}
        \cup {[kind |-> "id", id |-> i, name |-> ""] : i \in PlatformID}
        \cup {[kind |-> "name", id |-> 0, name |-> n] :
                n \in {"windows", "mac", "custom"}}

\* functools.singledispatchmethod keeps a registry from the class of the
\* FIRST positional argument to an implementation.  register() applied to an
\* annotated function takes the class from the first annotated parameter,
\* which in both registered functions is `language_code: str`: the second
\* registration replaces the first under the same key.
Registrations ==
    <<[cls |-> "str", impl |-> "all_platforms"],
      [cls |-> "str", impl |-> "by_platform_id"]>>

dispatch(cls) ==
    LET matching == {i \in DOMAIN Registrations : Registrations[i].cls = cls}
    IN  IF matching = {} THEN "entry_point"
        ELSE Registrations[SetMax(matching)].impl

\* the implementation registered first (platform: Literal[None] = None):
\* tuple(LanguageInfo(...) for p in self._platforms.values()); _platforms is
\* a sequence, which has no values() method.
get_language_info_all_platforms(ps, language_code) == Raise("AttributeError")

\* a variant that reports an unknown platform as an unsupported code
get_language_info_by_platform_id_Wraps(index, language_code, sel) ==
    IF sel.kind = "absent" THEN Raise("TypeError")
    ELSE IF sel.kind = "id" /\ sel.id \in DOMAIN index
    THEN LanguageInfo(index[sel.id], language_code)
    ELSE Raise("UnsupportedLanguageCodeError")

\* a variant that reports a resolver failure as a plain KeyError
get_language_info_by_platform_id_Converts(index, language_code, sel) ==
    IF sel.kind = "absent" THEN Raise("TypeError")
    ELSE IF sel.kind = "id" /\ sel.id \in DOMAIN index
    THEN IF Returned(LanguageInfo(index[sel.id], language_code))
         THEN LanguageInfo(index[sel.id], language_code)
         ELSE Raise("KeyError")
    ELSE Raise("KeyError")

\* the implementation registered second (platform: PlatformID); the keyword
\* has no default, so a call without it fails before the body runs.  The key
\* of the lookup is whatever the caller passed: only an identifier can equal
\* a key of the by-id index.
get_language_info_by_platform_id(index, language_code, sel) ==
    IF sel.kind = "absent" THEN Raise("TypeError")
    ELSE IF sel.kind = "id" /\ sel.id \in DOMAIN index
    THEN LanguageInfo(index[sel.id], language_code)
    ELSE Raise("KeyError")

\* mapper.get_language_info(code, platform=sel); byKeyword is the call form
\* get_language_info(language_code=code, ...), which leaves the dispatcher
\* without a positional argument to take the class of (IndexError, or
\* TypeError on later interpreters).
get_language_info(ps, slot, language_code, sel, byKeyword, err) ==
    IF byKeyword THEN Raise(err)
    ELSE IF dispatch("str") = "by_platform_id"
    THEN get_language_info_by_platform_id(
            CachedGet(slot, platforms_by_id(ps)).map, language_code, sel)
    ELSE IF dispatch("str") = "all_platforms"
    THEN get_language_info_all_platforms(ps, language_code)
    ELSE Raise("NotImplementedError")

\* what the dispatcher raises when it finds no positional argument; a call
\* with a positional code never raises it
DispatcherErrors(byKeyword) ==
    IF byKeyword THEN {"IndexError", "TypeError"} ELSE {"IndexError"}

\* whether the call reads self._platforms_by_id (and so fills its slot)
ReadsById(sel, byKeyword) ==
    ~byKeyword /\ dispatch("str") = "by_platform_id" /\ sel.kind # "absent"

\* no platform instance is followed
InitInstancesIdle ==
    instances = <<>>

\* no NameRecord instance exists yet
InitRecordIdle ==
    /\ record = <<>>
    /\ fields = <<>>
    /\ returned = [exists |-> FALSE, items |-> <<>>]
    /\ aliased = FALSE

NoCall == [op |-> "none"]
\* history marker of a 4-tuple no set_name_string call has written yet
Unset == "<unset>"

InitTableIdle ==
    /\ names = <<>>
    /\ initNames = <<>>
    /\ hadNames = FALSE
    /\ lastSet = EmptyMap

Init ==
    /\ platformsArg \in PlatformsArgs
    /\ platforms = LanguageInfoMapper_init(platformsArg)
    /\ byId = NotComputed
    /\ byName = NotComputed
    /\ InitTableIdle
    /\ InitInstancesIdle
    /\ InitRecordIdle
    /\ call = NoCall
    /\ result = Raise("none")

GetLanguageId(p, c) ==
    /\ call' = [op |-> "get_language_id", platform |-> p, code |-> c]
    /\ result' = get_language_id(p, c)
    /\ UNCHANGED <<mapperVars, tableVars, instances, recordVars>>

GetPlatformEncodingId(p, c) ==
    /\ call' = [op |-> "get_platform_encoding_id", platform |-> p, code |-> c]
    /\ result' = get_platform_encoding_id(p, c)
    /\ UNCHANGED <<mapperVars, tableVars, instances, recordVars>>

PlatformsGetLanguageInfo(p, c) ==
    /\ call' = [op |-> "platforms.get_language_info", platform |-> p, code |-> c]
    /\ result' = platforms_get_language_info(p, c)
    /\ UNCHANGED <<mapperVars, tableVars, instances, recordVars>>

GetLanguageInfo(c, sel, byKeyword, err) ==
    /\ call' = [op |-> "get_language_info", code |-> c, sel |-> sel,
                byKeyword |-> byKeyword]
    /\ result' = get_language_info(platforms, byId, c, sel, byKeyword, err)
    /\ byId' = IF ReadsById(sel, byKeyword)
               THEN CachedGet(byId, platforms_by_id(platforms))
               ELSE byId
    /\ UNCHANGED <<platformsArg, platforms, byName, tableVars, instances, recordVars>>

\* reading the two cached properties directly, as the tests do
ReadPlatformsById ==
    /\ call' = [op |-> "_platforms_by_id"]
    /\ byId' = CachedGet(byId, platforms_by_id(platforms))
    /\ result' = Ret(byId'.map)
    /\ UNCHANGED <<platformsArg, platforms, byName, tableVars, instances, recordVars>>

ReadPlatformsByName ==
    /\ call' = [op |-> "_platforms_by_name"]
    /\ byName' = CachedGet(byName, platforms_by_name(platforms))
    /\ result' = Ret(byName'.map)
    /\ UNCHANGED <<platformsArg, platforms, byId, tableVars, instances, recordVars>>

Next ==
    \/ \E p \in LanguageMappedPlatform, c \in LanguageCodes : GetLanguageId(p, c)
    \/ \E p \in LanguageMappedPlatform, c \in LanguageCodes :
            GetPlatformEncodingId(p, c)
    \/ \E p \in LanguageMappedPlatform, c \in LanguageCodes :
            PlatformsGetLanguageInfo(p, c)
    \/ \E c \in LanguageCodes, sel \in Selectors, byKeyword \in BOOLEAN :
            \E err \in DispatcherErrors(byKeyword) :
                GetLanguageInfo(c, sel, byKeyword, err)
    \/ ReadPlatformsById
    \/ ReadPlatformsByName

Spec == Init /\ [][Next]_vars

-----------------------------------------------------------------------------
(* table_name.py: TTLibToNameTableAdapter over a fontTools name table.     *)
(* A raw record is [string, nameID, platformID, platEncID, langID].        *)

\* name strings callers write
NameStrings == {"Test Family", "BoldWin"}

\* the 4-tuples <<nameID, platformID, platEncID, langID>> callers use
Slots == {<<1, 3, 1, 1033>>, <<2, 3, 1, 1033>>, <<1, 1, 0, 0>>}

makeName(string, nameID, platformID, platEncID, langID) ==
    [string |-> string, nameID |-> nameID, platformID |-> platformID,
     platEncID |-> platEncID, langID |-> langID]

IdsOf(rec) == <<rec.nameID, rec.platformID, rec.platEncID, rec.langID>>

\* the raw table's getName: the position of the first record that matches
\* all four IDs, 0 standing for None
getName(ns, nameID, platformID, platEncID, langID) ==
    LET hits == {i \in DOMAIN ns :
                    /\ ns[i].nameID = nameID
                    /\ ns[i].platformID = platformID
                    /\ ns[i].platEncID = platEncID
                    /\ ns[i].langID = langID}
    IN  IF hits = {} THEN 0 ELSE CHOOSE i \in hits : \A j \in hits : i <= j

\* the raw table's setName: overwrite the string of the record getName
\* finds, or append a new record
setName(ns, string, nameID, platformID, platEncID, langID) ==
    LET found == getName(ns, nameID, platformID, platEncID, langID)
    IN  IF found # 0
        THEN [ns EXCEPT ![found].string = string]
        ELSE Append(ns, makeName(string, nameID, platformID, platEncID, langID))

\* the raw tables an adapter is constructed over: without a names
\* attribute, or with a record list (which may repeat a 4-tuple)
InitRecords ==
    {makeName("Test Family", 1, 3, 1, 1033), makeName("BoldWin", 1, 3, 1, 1033),
     makeName("BoldWin", 1, 1, 0, 0)}

RawTables ==
    {[hasNames |-> FALSE, names |-> <<>>]}
        \cup {[hasNames |-> TRUE, names |-> ns] :
                ns \in SeqsUpTo(InitRecords, MaxInitNames)}

\* a variant that always starts from an empty list
TTLibToNameTableAdapter_init_AlwaysEmpty(table) == <<>>

\* if not hasattr(table, "names"): self._table.names = []
TTLibToNameTableAdapter_init(table) ==
    IF table.hasNames THEN table.names ELSE <<>>

\* a variant that hands back an empty record when nothing matches
get_name_record_Sentinel(ns, name_id, platform_id, platform_encoding_id, language_id) ==
    LET name_record ==
            getName(ns, name_id, platform_id, platform_encoding_id, language_id)
    IN  IF name_record = 0
        THEN Ret(makeName("", name_id, platform_id, platform_encoding_id,
                          language_id))
        ELSE Ret(ns[name_record])

\* a variant that forwards platform_id and platform_encoding_id swapped
get_name_record_SwappedIds(ns, name_id, platform_id, platform_encoding_id, language_id) ==
    LET name_record ==
            getName(ns, name_id, platform_encoding_id, platform_id, language_id)
    IN  IF name_record = 0 THEN Raise("KeyError") ELSE Ret(ns[name_record])

get_name_record(ns, name_id, platform_id, platform_encoding_id, language_id) ==
    LET name_record ==
            getName(ns, name_id, platform_id, platform_encoding_id, language_id)
    IN  IF name_record = 0 THEN Raise("KeyError") ELSE Ret(ns[name_record])

get_name_string(ns, name_id, platform_id, platform_encoding_id, language_id) ==
    LET name_record ==
            get_name_record(ns, name_id, platform_id, platform_encoding_id,
                            language_id)
    IN  IF Returned(name_record) THEN Ret(name_record.value.string)
        ELSE name_record

\* a variant that overwrites every record of the 4-tuple
set_name_string_OverwritesAll(ns, string, name_id, platform_id, platform_encoding_id, language_id) ==
    LET slot == <<name_id, platform_id, platform_encoding_id, language_id>>
    IN  IF \E i \in DOMAIN ns : IdsOf(ns[i]) = slot
        THEN [i \in DOMAIN ns |->
                IF IdsOf(ns[i]) = slot THEN [ns[i] EXCEPT !.string = string]
                ELSE ns[i]]
        ELSE Append(ns, makeName(string, name_id, platform_id,
                                 platform_encoding_id, language_id))

\* a variant that takes the matching records out and puts the new one last
set_name_string_MovesToEnd(ns, string, name_id, platform_id, platform_encoding_id, language_id) ==
    LET slot == <<name_id, platform_id, platform_encoding_id, language_id>>
        RECURSIVE others(_)
        others(rest) ==
            IF rest = <<>> THEN <<>>
            ELSE IF IdsOf(Head(rest)) = slot THEN others(Tail(rest))
            ELSE <<Head(rest)>> \o others(Tail(rest))
    IN  Append(others(ns), makeName(string, name_id, platform_id,
                                    platform_encoding_id, language_id))

\* a variant that forwards platform_id and platform_encoding_id swapped
set_name_string_SwappedIds(ns, string, name_id, platform_id, platform_encoding_id, language_id) ==
    setName(ns, string, name_id, platform_encoding_id, platform_id, language_id)

\* a variant that appends without looking for an existing record
set_name_string_AlwaysAppends(ns, string, name_id, platform_id, platform_encoding_id, language_id) ==
    Append(ns, makeName(string, name_id, platform_id, platform_encoding_id,
                        language_id))

\* the record list after set_name_string(string, name_id, ...)
set_name_string(ns, string, name_id, platform_id, platform_encoding_id, language_id) ==
    setName(ns, string, name_id, platform_id, platform_encoding_id, language_id)

InitMapperIdle ==
    /\ platformsArg = [isNone |-> TRUE, seq |-> <<>>]
    /\ platforms = LanguageInfoMapper_init(platformsArg)
    /\ byId = NotComputed
    /\ byName = NotComputed

InitTable ==
    /\ InitMapperIdle
    /\ \E table \in RawTables :
        /\ names = TTLibToNameTableAdapter_init(table)
        /\ initNames = IF table.hasNames THEN table.names ELSE <<>>
        /\ hadNames = table.hasNames
    /\ lastSet = EmptyMap
    /\ InitInstancesIdle
    /\ InitRecordIdle
    /\ call = NoCall
    /\ result = Raise("none")

GetNameRecord(slot) ==
    /\ call' = [op |-> "get_name_record", slot |-> slot]
    /\ result' = get_name_record(names, slot[1], slot[2], slot[3], slot[4])
    /\ UNCHANGED <<mapperVars, tableVars, instances, recordVars>>

\* a variant that takes the record it reads out of the list
GetNameString_Consumes(slot) ==
    /\ call' = [op |-> "get_name_string", slot |-> slot]
    /\ result' = get_name_string(names, slot[1], slot[2], slot[3], slot[4])
    /\ names' = LET found == getName(names, slot[1], slot[2], slot[3], slot[4])
                IN  IF found = 0 THEN names
                    ELSE SubSeq(names, 1, found - 1)
                            \o SubSeq(names, found + 1, Len(names))
    /\ UNCHANGED <<mapperVars, initNames, hadNames, lastSet, instances, recordVars>>

GetNameString(slot) ==
    /\ call' = [op |-> "get_name_string", slot |-> slot]
    /\ result' = get_name_string(names, slot[1], slot[2], slot[3], slot[4])
    /\ UNCHANGED <<mapperVars, tableVars, instances, recordVars>>

SetNameString(string, slot) ==
    /\ call' = [op |-> "set_name_string", slot |-> slot, string |-> string,
                previous |-> IF slot \in DOMAIN lastSet THEN lastSet[slot]
                             ELSE Unset]
    /\ names' = set_name_string(names, string, slot[1], slot[2], slot[3], slot[4])
    /\ lastSet' = [k \in DOMAIN lastSet \cup {slot} |->
                      IF k = slot THEN string ELSE lastSet[k]]
    /\ result' = Ret("None")
    /\ UNCHANGED <<mapperVars, initNames, hadNames, instances, recordVars>>

NextTable ==
    \/ \E slot \in Slots : GetNameRecord(slot)
    \/ \E slot \in Slots : GetNameString(slot)
    \/ \E string \in NameStrings, slot \in Slots : SetNameString(string, slot)

SpecTable == InitTable /\ [][NextTable]_vars

-----------------------------------------------------------------------------
(* table_name.py: NameRecord, built directly or from a fontTools record.   *)
(* A Python value is [type, units]: the units of a str are its code        *)
(* points, those of a bytes its bytes, that of an int the number itself.   *)

\* the longest raw name string
MaxStringLen == 2

\* how many entries of a returned mapping a caller changes
MaxMutations == 1

PyStr(units) == [type |-> "str", units |-> units]

PyBytes(units) == [type |-> "bytes", units |-> units]

PyInt(n) == [type |-> "int", units |-> <<n>>]

PyNone == [type |-> "NoneType", units |-> <<>>]

\* code points of the str strings: U+0000 and "A"
CodePoints == {0, 65}

\* bytes of the bytes strings: NUL, "A" and 0xFF
ByteValues == {0, 65, 255}

\* the raw name strings: str and bytes values up to MaxStringLen
RawStrings ==
    {PyStr(u) : u \in SeqsUpTo(CodePoints, MaxStringLen)}
        \cup {PyBytes(u) : u \in SeqsUpTo(ByteValues, MaxStringLen)}

\* the <<nameID, platformID, platEncID, langID>> of the raw records: Windows
\* Unicode BMP, Macintosh Roman, and IDs no platform defines
RawIds == {<<1, 3, 1, 1033>>, <<1, 1, 0, 0>>, <<300, 7, 99, 4096>>}

FtNameRecords ==
    {makeName(s, ids[1], ids[2], ids[3], ids[4]) :
        s \in RawStrings, ids \in RawIds}

\* the Python codec a raw record's IDs select, "ascii" when none is known
getEncoding(platformID, platEncID, langID) ==
    IF platformID = 0 THEN "utf_16_be"
    ELSE IF platformID = 3 /\ platEncID \in {0, 1, 10} THEN "utf_16_be"
    ELSE IF platformID = 1 /\ platEncID = 0 THEN "mac_roman"
    ELSE "ascii"

isascii(b) == (b >= 32 /\ b <= 126) \/ b \in {9, 10, 13}

\* the upper half of the mac_roman codec, for the bytes in ByteValues
MAC_ROMAN_HIGH == (255 :> 711)

\* bytes.decode(encoding, "strict")
decode(units, encoding) ==
    IF encoding = "ascii"
    THEN IF \A i \in DOMAIN units : units[i] < 128
         THEN Ret(PyStr(units)) ELSE Raise("UnicodeDecodeError")
    ELSE IF encoding = "mac_roman"
    THEN Ret(PyStr([i \in DOMAIN units |->
                    IF units[i] < 128 THEN units[i]
                    ELSE MAC_ROMAN_HIGH[units[i]]]))
    ELSE IF Len(units) % 2 = 0
         THEN Ret(PyStr([i \in 1..(Len(units) \div 2) |->
                        units[2 * i - 1] * 256 + units[2 * i]]))
         ELSE Raise("UnicodeDecodeError")

\* the repair of UTF-16 byte strings of odd length
recoverOddUtf16(units) ==
    IF units[Len(units)] = 0
    THEN SubSeq(units, 1, Len(units) - 1)
    ELSE IF \A i \in DOMAIN units :
                IF i % 2 = 0 THEN units[i] = 0 ELSE isascii(units[i])
    THEN <<0>> \o units
    ELSE IF units[1] = 0 /\ \A i \in 2..Len(units) : isascii(units[i])
    THEN [i \in 1..(2 * (Len(units) - 1)) |->
            IF i % 2 = 1 THEN 0 ELSE units[(i \div 2) + 1]]
    ELSE units

\* a decoded string that still looks like UTF-16BE is narrowed to its odd
\* positions
fixDoubleEncoding(units) ==
    IF \A i \in DOMAIN units :
            IF i % 2 = 1 THEN units[i] = 0 ELSE isascii(units[i])
    THEN [i \in 1..(Len(units) \div 2) |-> units[2 * i]]
    ELSE units

\* the raw record's toUnicode()
toUnicode(ft) ==
    LET encoding == getEncoding(ft.platformID, ft.platEncID, ft.langID)
        string ==
            IF ft.string.type = "bytes" /\ encoding = "utf_16_be"
                    /\ Len(ft.string.units) % 2 = 1
            THEN recoverOddUtf16(ft.string.units)
            ELSE ft.string.units
        decoded ==
            IF ft.string.type = "bytes" THEN decode(string, encoding)
            ELSE Ret(PyStr(string))
    IN  IF Returned(decoded)
        THEN Ret(PyStr(fixDoubleEncoding(decoded.value.units)))
        ELSE decoded

\* the five fields, in declaration order
FieldNames == <<"string", "name_id", "platform_id", "platform_encoding_id", "language_id">>

\* the instance's __dict__: the <<key, value>> entries in insertion order
NameRecord(string, name_id, platform_id, platform_encoding_id, language_id) ==
    <<  <<"string", string>>, <<"name_id", PyInt(name_id)>>,
        <<"platform_id", PyInt(platform_id)>>,
        <<"platform_encoding_id", PyInt(platform_encoding_id)>>,
        <<"language_id", PyInt(language_id)>>  >>

Keys(d) == {d[i][1] : i \in DOMAIN d}

\* d[k], for k a key of d
Lookup(d, k) == d[CHOOSE i \in DOMAIN d : d[i][1] = k][2]

\* d[k] = v: an existing key keeps its position, a new key goes last
setitem(d, k, v) ==
    IF k \in Keys(d)
    THEN [i \in DOMAIN d |-> IF d[i][1] = k THEN <<k, v>> ELSE d[i]]
    ELSE Append(d, <<k, v>>)

\* del d[k]
delitem(d, k) ==
    LET RECURSIVE without(_)
        without(rest) ==
            IF rest = <<>> THEN <<>>
            ELSE IF Head(rest)[1] = k THEN without(Tail(rest))
            ELSE <<Head(rest)>> \o without(Tail(rest))
    IN  without(d)

\* dict(mapping): a new object with the same entries
dict(mapping) == [items |-> mapping, sameObject |-> FALSE]

\* a variant that hands out the instance's own __dict__
as_dict_ReturnsOwnDict(self) == [items |-> self, sameObject |-> TRUE]

as_dict(self) == dict(self)

\* a variant without the isinstance test
from_ft_name_record_AcceptsBytes(ft_name_record) ==
    LET name_string == toUnicode(ft_name_record)
    IN  IF ~Returned(name_string) THEN name_string
        ELSE Ret(NameRecord(name_string.value, ft_name_record.nameID,
                            ft_name_record.platformID,
                            ft_name_record.platEncID, ft_name_record.langID))

\* a variant that tests the decoded string instead of the raw one
from_ft_name_record_ChecksDecoded(ft_name_record) ==
    LET name_string == toUnicode(ft_name_record)
    IN  IF ~Returned(name_string) THEN name_string
        ELSE IF name_string.value.type # "str" THEN Raise("ValueError")
        ELSE Ret(NameRecord(name_string.value, ft_name_record.nameID,
                            ft_name_record.platformID,
                            ft_name_record.platEncID, ft_name_record.langID))

from_ft_name_record(ft_name_record) ==
    LET name_string == toUnicode(ft_name_record)
    IN  IF ~Returned(name_string) THEN name_string
        ELSE IF ft_name_record.string.type # "str" THEN Raise("ValueError")
        ELSE Ret(NameRecord(name_string.value, ft_name_record.nameID,
                            ft_name_record.platformID,
                            ft_name_record.platEncID, ft_name_record.langID))

\* no mapping has been returned yet
NoMapping == [exists |-> FALSE, items |-> <<>>]

\* the keys and values a caller writes into a returned mapping
MutationKeys == Keys(NameRecord(PyNone, 0, 0, 0, 0)) \cup {"extra"}

MutationValues == {PyNone, PyStr(<<65>>)}

\* the number of keys on which two mappings differ
Mutations(a, b) ==
    Cardinality({k \in Keys(a) \cup Keys(b) :
                    \/ k \notin Keys(a)
                    \/ k \notin Keys(b)
                    \/ Lookup(a, k) # Lookup(b, k)})

InitRecord ==
    /\ InitMapperIdle
    /\ InitTableIdle
    /\ InitInstancesIdle
    /\ InitRecordIdle
    /\ call = NoCall
    /\ result = Raise("none")

\* NameRecord(string=..., name_id=..., ...)
Construct(string, ids) ==
    /\ string.type = "str"
    /\ call' = [op |-> "NameRecord", raw |-> makeName(string, ids[1], ids[2], ids[3], ids[4])]
    /\ record' = NameRecord(string, ids[1], ids[2], ids[3], ids[4])
    /\ fields' = record'
    /\ returned' = NoMapping
    /\ aliased' = FALSE
    /\ result' = Ret(record')
    /\ UNCHANGED <<mapperVars, tableVars, instances>>

FromFtNameRecord(ft_name_record) ==
    /\ call' = [op |-> "from_ft_name_record", raw |-> ft_name_record]
    /\ result' = from_ft_name_record(ft_name_record)
    /\ record' = IF Returned(result') THEN result'.value ELSE <<>>
    /\ fields' = record'
    /\ returned' = NoMapping
    /\ aliased' = FALSE
    /\ UNCHANGED <<mapperVars, tableVars, instances>>

AsDict ==
    /\ record # <<>>
    /\ call' = [op |-> "as_dict"]
    /\ LET d == as_dict(record)
       IN  /\ returned' = [exists |-> TRUE, items |-> d.items]
           /\ aliased' = d.sameObject
           /\ result' = Ret(d.items)
    /\ UNCHANGED <<record, fields, mapperVars, tableVars, instances>>

\* the caller writes returned[k] = v
SetItem(k, v) ==
    /\ returned.exists
    /\ Mutations(setitem(returned.items, k, v), fields) <= MaxMutations
    /\ call' = [op |-> "dict.__setitem__", key |-> k]
    /\ returned' = [returned EXCEPT !.items = setitem(returned.items, k, v)]
    /\ record' = IF aliased THEN returned'.items ELSE record
    /\ result' = Ret(returned'.items)
    /\ UNCHANGED <<fields, aliased, mapperVars, tableVars, instances>>

\* the caller deletes returned[k]
DelItem(k) ==
    /\ returned.exists
    /\ k \in Keys(returned.items)
    /\ Mutations(delitem(returned.items, k), fields) <= MaxMutations
    /\ call' = [op |-> "dict.__delitem__", key |-> k]
    /\ returned' = [returned EXCEPT !.items = delitem(returned.items, k)]
    /\ record' = IF aliased THEN returned'.items ELSE record
    /\ result' = Ret(returned'.items)
    /\ UNCHANGED <<fields, aliased, mapperVars, tableVars, instances>>

NextRecord ==
    \/ \E string \in RawStrings, ids \in RawIds : Construct(string, ids)
    \/ \E ft_name_record \in FtNameRecords : FromFtNameRecord(ft_name_record)
    \/ AsDict
    \/ \E k \in MutationKeys, v \in MutationValues : SetItem(k, v)
    \/ \E k \in MutationKeys : DelItem(k)

SpecRecord == InitRecord /\ [][NextRecord]_vars

-----------------------------------------------------------------------------
(* platforms.py: the platform instances as objects.  WINDOWS_PLATFORM,     *)
(* MAC_PLATFORM and two caller-built instances answer resolver calls and   *)
(* are the targets of attribute assignments.                               *)

\* each instance holds the attribute values given at construction
InitInstances ==
    instances = Instances

InitPlatforms ==
    /\ InitMapperIdle
    /\ InitTableIdle
    /\ InitInstances
    /\ InitRecordIdle
    /\ call = NoCall
    /\ result = Raise("none")

\* LanguageMappedPlatform(name=..., ...): the generated __init__ stores the
\* six arguments; the class has no __post_init__ and checks nothing
LanguageMappedPlatform_init(p) == Ret(p)

\* a caller constructs a further instance from the field values of p
ConstructPlatform(p) ==
    /\ call' = [op |-> "LanguageMappedPlatform", platform |-> p]
    /\ result' = LanguageMappedPlatform_init(p)
    /\ UNCHANGED <<mapperVars, tableVars, instances, recordVars>>

\* setattr(instance, name, value) on a platform instance
SetAttr(n, name) ==
    /\ call' = [op |-> "setattr", instance |-> n, name |-> name]
    /\ LET assigned == setattr(instances[n], name, AttributeValues[name])
       IN  /\ instances' = [instances EXCEPT ![n] = assigned.self]
           /\ result' = assigned.result
    /\ UNCHANGED <<mapperVars, tableVars, recordVars>>

\* the resolver calls on instance n, answered from its attribute values
InstanceGetLanguageId(n, c) == GetLanguageId(instances[n], c)

InstanceGetPlatformEncodingId(n, c) == GetPlatformEncodingId(instances[n], c)

InstanceGetLanguageInfo(n, c) == PlatformsGetLanguageInfo(instances[n], c)

NextPlatforms ==
    \/ \E n \in DOMAIN Instances, c \in LanguageCodes :
            InstanceGetLanguageId(n, c)
    \/ \E n \in DOMAIN Instances, c \in LanguageCodes :
            InstanceGetPlatformEncodingId(n, c)
    \/ \E n \in DOMAIN Instances, c \in LanguageCodes :
            InstanceGetLanguageInfo(n, c)
    \/ \E n \in DOMAIN Instances, name \in AttributeNames : SetAttr(n, name)
    \/ \E p \in LanguageMappedPlatform : ConstructPlatform(p)

SpecPlatforms == InitPlatforms /\ [][NextPlatforms]_vars

-----------------------------------------------------------------------------
(* Properties of the resolver and the mapper, checked under Spec *)

\* the platforms the mapper is configured with
Configured == {platforms[i] : i \in DOMAIN platforms}

\* c has a language id and a platform encoding id on p
Supports(p, c) ==
    /\ c \in DOMAIN p.language_ids
    /\ p.language_ids[c] \in DOMAIN p.platform_encoding_ids

\* the (platform_id, language_id, platform_encoding_id) of c on p
InfoOf(p, c) ==
    [platform_id |-> p.platform_id,
     language_id |-> p.language_ids[c],
     platform_encoding_id |-> p.platform_encoding_ids[p.language_ids[c]]]

\* p is the last configured platform that carries its platform_id
LastWithId(p) ==
    \E i \in DOMAIN platforms :
        /\ platforms[i] = p
        /\ \A j \in DOMAIN platforms :
                platforms[j].platform_id = p.platform_id => j <= i

\* the latest call was mapper.get_language_info(code, ...) with the code
\* passed positionally
IsMapperCall == call.op = "get_language_info" /\ ~call.byKeyword

\* C1: for every platform p and every code c that is a key of
\* p.language_ids, get_language_id(c) returns exactly p.language_ids[c],
\* whatever calls came before it.
C1_GetLanguageIdReturnsMappedId ==
    (call.op = "get_language_id"
        /\ call.code \in DOMAIN call.platform.language_ids)
    => (Returned(result)
        /\ result.value = call.platform.language_ids[call.code])

C1_Witness ==
    /\ call.op = "get_language_id"
    /\ call.platform = MAC_PLATFORM
    /\ call.code = "ar"
    /\ Returned(result)
    /\ result.value = 12

\* C2: for every platform p and every code c that is not a key of
\* p.language_ids, get_language_id(c) raises UnsupportedLanguageCodeError
\* and returns nothing.
C2_GetLanguageIdMissRaises ==
    (call.op = "get_language_id"
        /\ call.code \notin DOMAIN call.platform.language_ids)
    => Raised(result, "UnsupportedLanguageCodeError")

C2_Witness ==
    /\ call.op = "get_language_id"
    /\ call.platform = MAC_PLATFORM
    /\ call.code = "en-gb"
    /\ Raised(result, "UnsupportedLanguageCodeError")

\* C3: get_platform_encoding_id(c) returns
\* platform_encoding_ids[language_ids[c]] when both lookups hit, raises
\* UnsupportedLanguageCodeError when c is not a key of language_ids, and
\* raises the same error when the language id is not a key of
\* platform_encoding_ids.
C3_GetPlatformEncodingId ==
    call.op = "get_platform_encoding_id"
    => LET p == call.platform
           c == call.code
       IN  /\ Supports(p, c)
                => (Returned(result)
                    /\ result.value = p.platform_encoding_ids[p.language_ids[c]])
           /\ c \notin DOMAIN p.language_ids
                => Raised(result, "UnsupportedLanguageCodeError")
           /\ (c \in DOMAIN p.language_ids /\ ~Supports(p, c))
                => Raised(result, "UnsupportedLanguageCodeError")

\* the second lookup misses: "zz" has language id 8, which has no encoding
C3_Witness ==
    /\ call.op = "get_platform_encoding_id"
    /\ call.platform = UNICODE_CUSTOM_PLATFORM
    /\ call.code = "zz"
    /\ call.code \in DOMAIN call.platform.language_ids
    /\ Raised(result, "UnsupportedLanguageCodeError")

\* C4: for every code c supported by every configured platform,
\* get_language_info(c) without a platform selector returns one
\* LanguageInfo per configured platform, in the mapper's platform order,
\* the i-th holding the i-th platform's ids for c.
C4_AllPlatformsReturnsSequence ==
    (IsMapperCall
        /\ call.sel.kind \in {"absent", "none"}
        /\ \A p \in Configured : Supports(p, call.code))
    => (Returned(result)
        /\ result.value = [i \in DOMAIN platforms |-> InfoOf(platforms[i], call.code)])

\* C5 as stated: for every configured platform p and every code c supported
\* by p, get_language_info(c, platform=p.platform_id) returns
\* (p.platform_id, p.get_language_id(c), p.get_platform_encoding_id(c)).
C5_ByIdReturnsInfo_AnyConfigured ==
    \A p \in Configured :
        (IsMapperCall
            /\ call.sel.kind = "id"
            /\ call.sel.id = p.platform_id
            /\ Supports(p, call.code))
        => (Returned(result) /\ result.value = InfoOf(p, call.code))

\* C5, amended: for every configured platform p that is the last one in the
\* mapper's sequence with its platform_id (every platform, when the ids are
\* pairwise distinct) and every code c supported by p,
\* get_language_info(c, platform=p.platform_id) returns
\* (p.platform_id, p.get_language_id(c), p.get_platform_encoding_id(c)).
C5_ByIdReturnsInfo ==
    \A p \in Configured :
        (IsMapperCall
            /\ call.sel.kind = "id"
            /\ call.sel.id = p.platform_id
            /\ LastWithId(p)
            /\ Supports(p, call.code))
        => (Returned(result) /\ result.value = InfoOf(p, call.code))

\* the last of two platforms with id 3 answers for "fr"
C5_Witness ==
    /\ platforms = <<WINDOWS_PLATFORM, WINDOWS_CUSTOM_PLATFORM>>
    /\ IsMapperCall
    /\ call.sel.kind = "id"
    /\ call.sel.id = PlatformID_WINDOWS
    /\ call.code = "fr"
    /\ Returned(result)
    /\ result.value = [platform_id |-> 3, language_id |-> 1036,
                       platform_encoding_id |-> 1]

\* C6: for every configured platform p and every code c supported by p,
\* get_language_info(c, platform=p.name) resolves c against the platform
\* looked up by name and returns p's platform_id, language id and platform
\* encoding id for c.
C6_ByNameReturnsInfo ==
    \A p \in Configured :
        (IsMapperCall
            /\ call.sel.kind = "name"
            /\ call.sel.name = p.name
            /\ Supports(p, call.code))
        => (Returned(result) /\ result.value = InfoOf(p, call.code))

\* C7: get_language_info(c) without a platform selector, for a code c that
\* some configured platform does not support, fails with
\* UnsupportedLanguageCodeError and returns no partial sequence.
C7_AllPlatformsFailsUnsupported ==
    (IsMapperCall
        /\ call.sel.kind \in {"absent", "none"}
        /\ \E p \in Configured : ~Supports(p, call.code))
    => Raised(result, "UnsupportedLanguageCodeError")

\* C8 as stated: for every configured platform p and every code c that is
\* not a key of p.language_ids, get_language_info(c, platform=p.platform_id)
\* raises UnsupportedLanguageCodeError.
C8_ByIdMissRaises_AnyConfigured ==
    \A p \in Configured :
        (IsMapperCall
            /\ call.sel.kind = "id"
            /\ call.sel.id = p.platform_id
            /\ call.code \notin DOMAIN p.language_ids)
        => Raised(result, "UnsupportedLanguageCodeError")

\* C8, amended: for every configured platform p that is the last one in the
\* mapper's sequence with its platform_id (every platform, when the ids are
\* pairwise distinct) and every code c that is not a key of p.language_ids,
\* get_language_info(c, platform=p.platform_id) raises
\* UnsupportedLanguageCodeError, the error of the platform's own resolver.
C8_ByIdMissRaises ==
    \A p \in Configured :
        (IsMapperCall
            /\ call.sel.kind = "id"
            /\ call.sel.id = p.platform_id
            /\ LastWithId(p)
            /\ call.code \notin DOMAIN p.language_ids)
        => (/\ Raised(result, "UnsupportedLanguageCodeError")
            /\ result.error = get_language_id(p, call.code).error)

C8_Witness ==
    /\ platforms = PLATFORMS
    /\ IsMapperCall
    /\ call.sel.kind = "id"
    /\ call.sel.id = PlatformID_MAC
    /\ call.code = "en-gb"
    /\ Raised(result, "UnsupportedLanguageCodeError")

-----------------------------------------------------------------------------
(* Properties of the name table adapter, checked under SpecTable *)

\* C9: after any sequence of set_name_string calls, get_name_string for a
\* 4-tuple that was set at least once returns exactly the string of the
\* latest set_name_string call for that 4-tuple.
C9_RoundTrip ==
    (call.op = "get_name_string" /\ call.slot \in DOMAIN lastSet)
    => (Returned(result) /\ result.value = lastSet[call.slot])

\* read back after the slot was written, while another slot is in the table
C9_Witness ==
    /\ call.op = "get_name_string"
    /\ call.slot = <<1, 3, 1, 1033>>
    /\ call.slot \in DOMAIN lastSet
    /\ <<2, 3, 1, 1033>> \in DOMAIN lastSet
    /\ lastSet[call.slot] = "BoldWin"
    /\ Returned(result)
    /\ result.value = "BoldWin"

\* C10: starting from an empty table, after any sequence of set_name_string
\* calls the record list holds exactly one record per 4-tuple that was set,
\* and that record holds the string of the latest call for the 4-tuple.
C10_OneRecordPerSlot ==
    initNames = <<>>
    => /\ \A i, j \in DOMAIN names : IdsOf(names[i]) = IdsOf(names[j]) => i = j
       /\ {IdsOf(names[i]) : i \in DOMAIN names} = DOMAIN lastSet
       /\ \A i \in DOMAIN names : names[i].string = lastSet[IdsOf(names[i])]

\* a second call for the same 4-tuple with a different string
C10_Witness ==
    /\ initNames = <<>>
    /\ call.op = "set_name_string"
    /\ call.previous = "Test Family"
    /\ call.string = "BoldWin"
    /\ Cardinality({i \in DOMAIN names : IdsOf(names[i]) = call.slot}) = 1
    /\ \E i \in DOMAIN names :
            IdsOf(names[i]) = call.slot /\ names[i].string = "BoldWin"

\* the positions of the records that carry the 4-tuple slot
Matches(ns, slot) == {i \in DOMAIN ns : IdsOf(ns[i]) = slot}

\* C11: for any table and any 4-tuple that matches no record in it (so for
\* every 4-tuple on an empty table), get_name_record and get_name_string
\* raise KeyError and return nothing.
C11_MissRaisesKeyError ==
    (call.op \in {"get_name_record", "get_name_string"}
        /\ Matches(names, call.slot) = {})
    => Raised(result, "KeyError")

\* a miss on a table that holds records for other 4-tuples
C11_Witness ==
    /\ call.op = "get_name_string"
    /\ names # <<>>
    /\ Matches(names, call.slot) = {}
    /\ Raised(result, "KeyError")

\* C12: for any table holding a record with the queried IDs,
\* get_name_record returns a record of the table whose four IDs equal the
\* queried ones, and get_name_string returns the string field of the record
\* get_name_record returns for the same IDs (the first match in the list).
C12_HitReturnsMatchingRecord ==
    (call.op \in {"get_name_record", "get_name_string"}
        /\ Matches(names, call.slot) # {})
    => LET first == CHOOSE i \in Matches(names, call.slot) :
                        \A j \in Matches(names, call.slot) : i <= j
       IN  /\ Returned(result)
           /\ call.op = "get_name_record"
                => (IdsOf(result.value) = call.slot /\ result.value = names[first])
           /\ call.op = "get_name_string"
                => result.value = names[first].string

C12_Witness ==
    /\ call.op = "get_name_string"
    /\ Len(names) >= 2
    /\ Matches(names, call.slot) = {2}
    /\ Returned(result)
    /\ result.value = names[2].string


\* C20: set_name_string(s, n, p, e, l) changes nothing but the slot for
\* (n, p, e, l): the records already in the list keep their position and
\* IDs, a record with a different 4-tuple keeps its string too, and the
\* list either keeps its length (a record of the slot existed) or grows by
\* exactly one record, the new one, at the end; it never shrinks
C20_SetNameStringFrame ==
    [][call'.op = "set_name_string"
        => /\ \A i \in DOMAIN names :
                /\ i \in DOMAIN names'
                /\ IdsOf(names'[i]) = IdsOf(names[i])
                /\ IdsOf(names[i]) # call'.slot => names'[i] = names[i]
           /\ IF Matches(names, call'.slot) # {}
              THEN Len(names') = Len(names)
              ELSE /\ Len(names') = Len(names) + 1
                   /\ names'[Len(names')] =
                        makeName(call'.string, call'.slot[1], call'.slot[2],
                                 call'.slot[3], call'.slot[4])]_vars

\* "Test Family" set for (1,3,1,0x409) and then "BoldWin" for (2,3,1,0x409)
\* on an empty table: both records are there, in the order they were set
C20_Witness ==
    /\ initNames = <<>>
    /\ call.op = "set_name_string"
    /\ call.slot = <<2, 3, 1, 1033>>
    /\ names = <<makeName("Test Family", 1, 3, 1, 1033),
                 makeName("BoldWin", 2, 3, 1, 1033)>>

\* C24: an adapter constructed over a raw table without a record list
\* starts from an empty list, so a query that follows raises KeyError
\* (not-found) and nothing else; an adapter constructed over a raw table
\* with a record list starts from that list, records unchanged
C24_InitDefaultsNames ==
    lastSet = EmptyMap
    => /\ names = initNames
       /\ ~hadNames
            => /\ names = <<>>
               /\ call.op \in {"get_name_record", "get_name_string"}
                    => Raised(result, "KeyError")

C24_Witness ==
    /\ ~hadNames
    /\ lastSet = EmptyMap
    /\ call.op = "get_name_record"
    /\ Raised(result, "KeyError")
    /\ names = <<>>

\* C25: get_name_record and get_name_string leave the record list (length,
\* order, every record's string and IDs) unchanged whether they return or
\* raise, and set_name_string returns no value (None)
C25_CommandQuerySeparation ==
    [][/\ call'.op \in {"get_name_record", "get_name_string"} => names' = names
       /\ call'.op = "set_name_string" => result' = Ret("None")]_vars

\* a query has returned from a list of two records, which is still there
C25_Witness ==
    /\ call.op = "get_name_string"
    /\ Returned(result)
    /\ Len(names) = 2
    /\ names = initNames
    /\ lastSet = EmptyMap

\* C30: when the list holds two or more records with the 4-tuple,
\* get_name_record and get_name_string return the first of them in list
\* order, and set_name_string for the 4-tuple overwrites the string of that
\* first record only: nothing is appended and the later duplicates keep
\* their strings
C30_DuplicatesFirstWins ==
    [][LET dups == Matches(names, call'.slot)
           first == CHOOSE i \in dups : \A j \in dups : i <= j
       IN  (call'.op \in {"get_name_record", "get_name_string", "set_name_string"}
                /\ Cardinality(dups) >= 2)
           => /\ call'.op = "get_name_record" => result' = Ret(names[first])
              /\ call'.op = "get_name_string" => result' = Ret(names[first].string)
              /\ call'.op = "set_name_string"
                    => names' = [names EXCEPT ![first].string = call'.string]]_vars

\* "BoldWin" written over the first of two "Test Family" records
C30_Witness ==
    /\ initNames = <<makeName("Test Family", 1, 3, 1, 1033),
                     makeName("Test Family", 1, 3, 1, 1033)>>
    /\ call.op = "set_name_string"
    /\ call.slot = <<1, 3, 1, 1033>>
    /\ names = <<makeName("BoldWin", 1, 3, 1, 1033),
                 makeName("Test Family", 1, 3, 1, 1033)>>

-----------------------------------------------------------------------------
(* Properties of NameRecord, checked under SpecRecord *)

IsValueError(e) == e \in {"ValueError", "UnicodeDecodeError"}

\* bytes that are valid UTF-8; of ByteValues only 0xFF is above ASCII, and
\* 0xFF occurs in no UTF-8 sequence
ValidUtf8(units) == \A i \in DOMAIN units : units[i] < 128

\* C13: from_ft_name_record on a raw record whose string is a str succeeds
\* and yields a NameRecord whose string, name_id, platform_id,
\* platform_encoding_id and language_id equal the raw record's string,
\* nameID, platformID, platEncID and langID exactly, whatever the IDs are
C13_FieldsMatchExactly ==
    (call.op = "from_ft_name_record" /\ call.raw.string.type = "str")
    => /\ Returned(result)
       /\ Lookup(result.value, "string") = call.raw.string
       /\ Lookup(result.value, "name_id") = PyInt(call.raw.nameID)
       /\ Lookup(result.value, "platform_id") = PyInt(call.raw.platformID)
       /\ Lookup(result.value, "platform_encoding_id") = PyInt(call.raw.platEncID)
       /\ Lookup(result.value, "language_id") = PyInt(call.raw.langID)

\* C14: from_ft_name_record on a raw record whose string is a bytes value
\* that cannot be decoded as text (by the record's codec, or as UTF-8)
\* raises a ValueError and produces no NameRecord
C14_UndecodableRaisesValueError ==
    (/\ call.op = "from_ft_name_record"
     /\ call.raw.string.type = "bytes"
     /\ \/ ~Returned(toUnicode(call.raw))
        \/ ~ValidUtf8(call.raw.string.units))
    => /\ ~Returned(result)
       /\ IsValueError(result.error)
       /\ record = <<>>

C14_Witness ==
    /\ call.op = "from_ft_name_record"
    /\ call.raw.string = PyBytes(<<255>>)
    /\ call.raw.platformID = 1
    /\ Returned(toUnicode(call.raw))
    /\ Raised(result, "ValueError")

\* C15: as_dict() returns a mapping whose keys are exactly the five field
\* names and whose values are the record's field values, and the mapping is
\* not the record's own state: whatever entries of it a caller adds, removes
\* or changes, the record's fields and a later as_dict() are as constructed
C15_AsDictIsACopy ==
    /\ record # <<>> => record = fields
    /\ call.op = "as_dict"
        => /\ Returned(result)
           /\ Keys(result.value) = Range(FieldNames)
           /\ \A k \in Range(FieldNames) :
                Lookup(result.value, k) = Lookup(fields, k)

C15_Witness ==
    /\ call.op = "dict.__setitem__"
    /\ returned.exists
    /\ Lookup(returned.items, "string") # Lookup(record, "string")
    /\ record = fields

\* the keys of a mapping, in iteration order
KeysInOrder(d) == [i \in DOMAIN d |-> d[i][1]]

\* C26: the mapping as_dict() returns lists the five fields ordered by
\* field name: language_id, name_id, platform_encoding_id, platform_id,
\* string
C26_AsDictOrderedByName ==
    call.op = "as_dict"
    => KeysInOrder(result.value) =
        <<"language_id", "name_id", "platform_encoding_id", "platform_id",
          "string">>

\* C29: from_ft_name_record returns a NameRecord exactly when the raw
\* record's string is a str; a raw record whose string is a bytes value is
\* rejected with ValueError even when the bytes decode under the record's
\* encoding
C29_OnlyStrAccepted ==
    call.op = "from_ft_name_record"
    => /\ Returned(result) <=> call.raw.string.type = "str"
       /\ (call.raw.string.type = "bytes" /\ Returned(toUnicode(call.raw)))
            => Raised(result, "ValueError")

\* b"A" decodes as ASCII and is rejected all the same
C29_Witness ==
    /\ call.op = "from_ft_name_record"
    /\ call.raw.string = PyBytes(<<65>>)
    /\ toUnicode(call.raw) = Ret(PyStr(<<65>>))
    /\ Raised(result, "ValueError")
    /\ record = <<>>

-----------------------------------------------------------------------------
(* Properties of the mapper's lookup indices, checked under Spec *)

\* the configured platforms have pairwise distinct platform_ids and names
DistinctPlatforms ==
    \A i, j \in DOMAIN platforms :
        (platforms[i].platform_id = platforms[j].platform_id
            \/ platforms[i].name = platforms[j].name) => i = j

C23_IndicesComputedOnce ==
    [][/\ platforms' = platforms
       /\ byId.computed => byId' = byId
       /\ byName.computed => byName' = byName
       /\ byId' # byId => byId' = Computed(platforms_by_id(platforms))
       /\ byName' # byName => byName' = Computed(platforms_by_name(platforms))
       /\ (call'.op = "get_language_info" /\ ReadsById(call'.sel, call'.byKeyword))
            => byId'.computed]_vars

\* both indices are filled and a by-identifier call has returned
C23_Witness ==
    /\ IsMapperCall
    /\ call.sel.kind = "id"
    /\ Returned(result)
    /\ byId = Computed(platforms_by_id(platforms))
    /\ byName = Computed(platforms_by_name(platforms))

-----------------------------------------------------------------------------
(* Properties of the platform instances, checked under SpecPlatforms, and  *)
(* of the default mapper, checked under Spec                               *)

\* C16: an attempt to assign any attribute of WINDOWS_PLATFORM, MAC_PLATFORM
\* or any other LanguageMappedPlatform instance fails with an error
\* (FrozenInstanceError), and every attribute of every instance keeps the
\* value it had before
C16_PlatformsAreFrozen ==
    /\ \A n \in DOMAIN instances : instances[n] = Instances[n]
    /\ call.op = "setattr" => Raised(result, "FrozenInstanceError")

C16_Witness ==
    /\ call.op = "setattr"
    /\ Instances[call.instance] = MAC_PLATFORM
    /\ call.name = "language_ids"
    /\ Raised(result, "FrozenInstanceError")
    /\ instances[call.instance].language_ids = MAC_LANGUAGE_IDS

\* the invariant of a LanguageMappedPlatform
LanguageMappedPlatformInvariant(p) ==
    /\ \A c \in DOMAIN p.language_ids : p.language_ids[c] \in p.valid_language_ids
    /\ \A l \in DOMAIN p.platform_encoding_ids :
        /\ l \in p.valid_language_ids
        /\ p.platform_encoding_ids[l] \in p.valid_platform_encoding_ids

C18_DefaultPlatforms ==
    platformsArg.isNone => platforms = <<WINDOWS_PLATFORM, MAC_PLATFORM>>

C18_Witness ==
    /\ platformsArg.isNone
    /\ Len(platforms) = 2
    /\ platforms[1].name = "windows"
    /\ platforms[2].name = "mac"
    /\ call.op = "_platforms_by_name"
    /\ DOMAIN result.value = {"windows", "mac"}

\* the mapper was constructed without platforms, or with none
DefaultMapper == platformsArg.isNone \/ platformsArg.seq = <<>>

\* C19: every LanguageInfo the default mapper's get_language_info returns,
\* for any code and any selector, has a language_id in valid_language_ids
\* and a platform_encoding_id in valid_platform_encoding_ids of the
\* configured platform with the LanguageInfo's platform_id
C19_DefaultMapperReturnsSanctionedIds ==
    (DefaultMapper /\ call.op = "get_language_info" /\ Returned(result))
    => \E p \in Configured :
        /\ p.platform_id = result.value.platform_id
        /\ \A q \in Configured : q.platform_id = p.platform_id => q = p
        /\ result.value.language_id \in p.valid_language_ids
        /\ result.value.platform_encoding_id \in p.valid_platform_encoding_ids

C19_Witness ==
    /\ DefaultMapper
    /\ IsMapperCall
    /\ call.sel.kind = "id"
    /\ call.sel.id = PlatformID_MAC
    /\ call.code = "ar"
    /\ Returned(result)
    /\ result.value = [platform_id |-> 1, language_id |-> 12,
                       platform_encoding_id |-> 4]

\* C21: constructing a LanguageMappedPlatform whose tables are inconsistent
\* (a language_ids value outside valid_language_ids, a platform_encoding_ids
\* key outside valid_language_ids or value outside
\* valid_platform_encoding_ids) fails at construction and yields no instance
C21_InconsistentPlatformRejected ==
    (call.op = "LanguageMappedPlatform"
        /\ ~LanguageMappedPlatformInvariant(call.platform))
    => ~Returned(result)

\* C27: a mapper constructed with an explicitly empty platform sequence is
\* configured with (WINDOWS_PLATFORM, MAC_PLATFORM) and answers as the
\* mapper constructed without the argument does
C27_EmptySequenceFallsBack ==
    (~platformsArg.isNone /\ platformsArg.seq = <<>>)
    => /\ platforms = LanguageInfoMapper_init([isNone |-> TRUE, seq |-> <<>>])
       /\ platforms = <<WINDOWS_PLATFORM, MAC_PLATFORM>>
       /\ byId.computed => DOMAIN byId.map = {PlatformID_WINDOWS, PlatformID_MAC}

C27_Witness ==
    /\ ~platformsArg.isNone
    /\ platformsArg.seq = <<>>
    /\ IsMapperCall
    /\ call.sel.kind = "id"
    /\ call.sel.id = PlatformID_WINDOWS
    /\ call.code = "en"
    /\ Returned(result)
    /\ result.value.language_id = 1033

\* the platform_ids of the configured platforms
ConfiguredIds == {platforms[i].platform_id : i \in DOMAIN platforms}

\* C28: get_language_info(c, platform=id) with an identifier that none of
\* the configured platforms has never returns, for any code c: it raises a
\* plain KeyError, not an UnsupportedLanguageCodeError
C28_UnknownPlatformIdRaisesKeyError ==
    (IsMapperCall /\ call.sel.kind = "id" /\ call.sel.id \notin ConfiguredIds)
    => Raised(result, "KeyError")

\* PlatformID.UNICODE on the default mapper, for a code both platforms map
C28_Witness ==
    /\ platformsArg.isNone
    /\ IsMapperCall
    /\ call.sel.kind = "id"
    /\ call.sel.id = PlatformID_UNICODE
    /\ call.code = "en"
    /\ Raised(result, "KeyError")

====
